---- MODULE Spec2Model ----
(***************************************************************************)
(* PumpingTest_Analysis.ipynb: the Theim (Thiem) evaluator and the         *)
(* notebook's top-to-bottom run, over binary floating-point numbers.       *)
(*                                                                         *)
(* Numbers are IEEE-754 style binary floats (round to nearest, ties to     *)
(* even, gradual underflow, +-inf, nan) with a Prec-bit significand and    *)
(* exponents -MaxExp..MaxExp: numpy's float64 scaled down.                 *)
(***************************************************************************)
EXTENDS Integers, Sequences, FiniteSets, TLC

\* Significand bits of the float format (float64 has 53).
Prec == 14
\* Largest binary exponent of a finite float; the smallest normal float is
\* 2^(-MaxExp) (float64: 1023 and -1022).
MaxExp == 24

----------------------------------------------------------------------------
(* Floating point                                                          *)

pow2[i \in 0..30] == IF i = 0 THEN 1 ELSE 2 * pow2[i - 1]

\* The element of a one-element set.  { F(v) : v \in {e} } computes e once and
\* names its value v.
The(S) == CHOOSE z \in S : TRUE

\* exponent of the last significand bit in the lowest and the highest binade
ELo == (0 - MaxExp) - (Prec - 1)
EHi == MaxExp - (Prec - 1)

Fin(m, e) == [k |-> "fin", m |-> m, e |-> e]
Zero == Fin(0, ELo)
Inf(s) == [k |-> "inf", m |-> s, e |-> 0]
NaN == [k |-> "nan", m |-> 0, e |-> 0]

IsNaN(x) == x.k \notin {"fin", "inf"}
IsFin(x) == x.k = "fin"
IsInf(x) == x.k = "inf"
IsZero(x) == x.k = "fin" /\ x.m = 0

Abs(n) == IF n < 0 THEN 0 - n ELSE n
Sgn(n) == IF n < 0 THEN 0 - 1 ELSE 1
Max(a, b) == IF a >= b THEN a ELSE b

\* bits of n >= 0: the least i with n < 2^i
BitLen(n) ==
  IF n >= pow2[30] THEN 31
  ELSE CHOOSE i \in 0..30 : n < pow2[i] /\ (i = 0 \/ n >= pow2[i - 1])

\* the shift k for which N / (D * 2^k) has exactly Prec bits before the point
NormShift(N, D) ==
  The({ IF (IF k0 >= 0 THEN N \div (D * pow2[k0]) ELSE (N * pow2[0 - k0]) \div D)
             >= pow2[Prec]
          THEN k0 + 1 ELSE k0 : k0 \in {(BitLen(N) - BitLen(D)) - Prec} })

\* s * (N / D) * 2^e rounded at bit k of N / D: nearest, ties to even
RoundAt(s, N, D, e, k) ==
  LET Nk  == IF k >= 0 THEN N ELSE N * pow2[0 - k]
      Dk  == IF k >= 0 THEN D * pow2[k] ELSE D
      q   == Nk \div Dk
      rem == Nk % Dk
      up  == rem > Dk - rem \/ (rem = Dk - rem /\ q % 2 = 1)
      q1  == IF up THEN q + 1 ELSE q
      m   == IF q1 = pow2[Prec] THEN pow2[Prec - 1] ELSE q1
      ef  == IF q1 = pow2[Prec] THEN e + k + 1 ELSE e + k
  IN  IF m = 0 THEN Zero
      ELSE IF ef > EHi THEN Inf(s)
      ELSE Fin(s * m, ef)

\* s * (N / D) * 2^e rounded to the format: nearest, ties to even; overflow
\* gives an infinity, underflow is gradual.  N >= 0, D > 0, s in {-1, 1}.
RoundV(s, N, D, e) ==
  IF N = 0 THEN Zero
  ELSE The({ IF Max(kn, ELo - e) - kn > Prec THEN Zero
             ELSE RoundAt(s, N, D, e, Max(kn, ELo - e)) : kn \in {NormShift(N, D)} })

RoundQ(s, N, D, e) ==
  The({ RoundV(sv, Nv, Dv, ev) : sv \in {s}, Nv \in {N}, Dv \in {D}, ev \in {e} })

\* the float nearest to the rational n / d (a decimal literal, an integer)
R(n, d) == RoundQ(Sgn(n), Abs(n), d, 0)

Neg(x) ==
  The({ IF IsFin(u) THEN Fin(0 - u.m, u.e)
        ELSE IF IsInf(u) THEN Inf(0 - u.m)
        ELSE NaN : u \in {x} })

MulV(x, y) ==
  IF IsNaN(x) \/ IsNaN(y) THEN NaN
  ELSE IF IsInf(x) \/ IsInf(y)
    THEN IF IsZero(x) \/ IsZero(y) THEN NaN ELSE Inf(Sgn(x.m) * Sgn(y.m))
  ELSE RoundQ(Sgn(x.m) * Sgn(y.m), Abs(x.m) * Abs(y.m), 1, x.e + y.e)

\* x * y
Mul(x, y) == The({ MulV(u, v) : u \in {x}, v \in {y} })

DivV(x, y) ==
  IF IsNaN(x) \/ IsNaN(y) THEN NaN
  ELSE IF IsInf(x) THEN (IF IsInf(y) THEN NaN ELSE Inf(Sgn(x.m) * Sgn(y.m)))
  ELSE IF IsInf(y) THEN Zero
  ELSE IF IsZero(y) THEN (IF IsZero(x) THEN NaN ELSE Inf(Sgn(x.m)))
  ELSE RoundQ(Sgn(x.m) * Sgn(y.m), Abs(x.m), Abs(y.m), x.e - y.e)

\* x / y (numpy: a finite nonzero x over zero is an infinity, 0/0 is nan)
Div(x, y) == The({ DivV(u, v) : u \in {x}, v \in {y} })

\* hi + lo for finite nonzero hi, lo with hi.e >= lo.e
AddOrdered(hi, lo) ==
  LET d == hi.e - lo.e
  IN  IF d > Prec + 2 THEN hi
      ELSE IF d <= 3
        THEN RoundQ(Sgn(hi.m * pow2[d] + lo.m), Abs(hi.m * pow2[d] + lo.m), 1, lo.e)
      ELSE
        \* lo shifted to three guard bits below hi, the rest kept as a
        \* sticky bit
        LET q  == Abs(lo.m) \div pow2[d - 3]
            st == IF Abs(lo.m) % pow2[d - 3] # 0 THEN 1 ELSE 0
            sg == Sgn(hi.m) * Sgn(lo.m)
        IN  RoundQ(Sgn(hi.m), 2 * (Abs(hi.m) * 8 + sg * q) + sg * st, 1, hi.e - 4)

AddV(x, y) ==
  IF IsNaN(x) \/ IsNaN(y) THEN NaN
  ELSE IF IsInf(x) THEN (IF IsInf(y) /\ y.m # x.m THEN NaN ELSE x)
  ELSE IF IsInf(y) THEN y
  ELSE IF IsZero(x) THEN y
  ELSE IF IsZero(y) THEN x
  ELSE IF x.e >= y.e THEN AddOrdered(x, y)
  ELSE AddOrdered(y, x)

\* x + y
Add(x, y) == The({ AddV(u, v) : u \in {x}, v \in {y} })

\* x - y
Sub(x, y) == Add(x, Neg(y))

\* floor of the square root of n
RECURSIVE ISqrt(_)
ISqrt(n) ==
  IF n < 2 THEN n
  ELSE The({ IF (s + 1) * (s + 1) <= n THEN s + 1 ELSE s :
             s \in {2 * ISqrt(n \div 4)} })

\* the root of the integer N >= 2^(2 Prec - 2), to the nearest integer (N is
\* never half way between two)
RootNearest(N) == The({ IF N - q * q > q THEN q + 1 ELSE q : q \in {ISqrt(N)} })

SqrtV(x) ==
  IF IsNaN(x) THEN NaN
  ELSE IF IsInf(x) THEN (IF x.m > 0 THEN x ELSE NaN)
  ELSE IF x.m < 0 THEN NaN
  ELSE IF x.m = 0 THEN Zero
  ELSE
    \* x.m * 2^j has 2 Prec - 1 or 2 Prec bits and leaves an even exponent
    The({ RoundQ(1, RootNearest(x.m * pow2[j]), 1, (x.e - j) \div 2) :
          j \in { IF (x.e - (2 * Prec - BitLen(x.m))) % 2 = 0
                    THEN 2 * Prec - BitLen(x.m)
                    ELSE 2 * Prec - BitLen(x.m) - 1 } })

\* np.sqrt: nan for a negative argument, the correctly rounded root otherwise
Sqrt(x) == The({ SqrtV(u) : u \in {x} })

\* fraction bits of the fixed-point logarithm: four guard bits
LogW == Prec + 4

\* floor(y * y / 2^LogW) for y < 2^(LogW + 1), by halves so that no product
\* leaves the integer range
SqrFix(y) ==
  ((y \div pow2[10]) * y + ((y % pow2[10]) * y) \div pow2[10]) \div pow2[LogW - 10]

\* the first n fraction bits of log2(y / 2^LogW), 1 <= y / 2^LogW < 2, by
\* repeated squaring
RECURSIVE Log2Frac(_, _)
Log2Frac(y, n) ==
  IF n = 0 THEN 0
  ELSE The({ IF y2 >= pow2[LogW + 1]
               THEN pow2[nv - 1] + Log2Frac(y2 \div 2, nv - 1)
               ELSE Log2Frac(y2, nv - 1) : y2 \in {SqrFix(y)}, nv \in {n} })

\* ln 2 (0.693147...) as a float
Ln2 == RoundQ(1, 744261118, 1, 0 - 30)

\* log2 of the finite x > 0 in units of 2^(-LogW)
Log2Fix(x) ==
  The({ (x.e + bl - 1) * pow2[LogW] + Log2Frac(x.m * pow2[LogW - (bl - 1)], LogW) :
        bl \in {BitLen(x.m)} })

LogV(x) ==
  IF IsNaN(x) THEN NaN
  ELSE IF IsInf(x) THEN (IF x.m > 0 THEN x ELSE NaN)
  ELSE IF x.m < 0 THEN NaN
  ELSE IF x.m = 0 THEN Inf(0 - 1)
  ELSE The({ Mul(RoundQ(Sgn(L), Abs(L), 1, 0 - LogW), Ln2) : L \in {Log2Fix(x)} })

\* np.log: the natural logarithm; -inf at 0, nan below 0.  log(1) is exactly
\* 0 and the result is monotone in x; away from 1 it is good to about one
\* unit in the last place.
Log(x) == The({ LogV(u) : u \in {x} })

\* faulty variant: 3.14 typed in for np.pi
PiTyped == R(314, 100)

\* np.pi (3.14159...) as a float
Pi == RoundQ(1, 843314857, 1, 0 - 28)

----------------------------------------------------------------------------
(* The Theim solution                                                      *)

\* def Theim(r,r1,b1,Q,K): the saturated thickness at radius r
\*   LHS=Q/np.pi/K*np.log(r/r1)
\*   b=np.sqrt(LHS+b1**2)

\* faulty variant: Q/np.pi*K
CoefTimesK(Q, K) == Mul(Div(Q, Pi), K)

\* Q/np.pi/K
Coef(Q, K) == Div(Div(Q, Pi), K)

\* faulty variant: np.log(r1/r)
TheimLHSInverted(r, r1, Q, K) == Mul(Coef(Q, K), Log(Div(r1, r)))

\* LHS
TheimLHS(r, r1, Q, K) == Mul(Coef(Q, K), Log(Div(r, r1)))

\* faulty variant: LHS+b1, the square forgotten
TheimArgNoSquare(r, r1, b1, Q, K) == Add(TheimLHS(r, r1, Q, K), b1)

\* LHS+b1**2
TheimArg(r, r1, b1, Q, K) == Add(TheimLHS(r, r1, Q, K), Mul(b1, b1))

\* faulty variant: a negative argument coerced to a real root
TheimCoerced(r, r1, b1, Q, K) ==
  The({ IF ~IsNaN(a) /\ a.m < 0 THEN Sqrt(Neg(a)) ELSE Sqrt(a) :
        a \in {TheimArg(r, r1, b1, Q, K)} })

Theim(r, r1, b1, Q, K) == Sqrt(TheimArg(r, r1, b1, Q, K))

\* Theim over an array of radii
TheimVec(rv, r1, b1, Q, K) == [i \in 1..Len(rv) |-> Theim(rv[i], r1, b1, Q, K)]

\* points of np.linspace when num is not given
SweepN == 50

\* np.linspace(start, stop): step = (stop - start) / (num - 1),
\* y = arange(0, num) * step + start, y[-1] = stop
Linspace(start, stop) ==
  LET step == Div(Sub(stop, start), R(SweepN - 1, 1))
  IN  [i \in 1..SweepN |->
         IF i = SweepN THEN stop ELSE Add(Mul(R(i - 1, 1), step), start)]

\* faulty variant: the grid passed on as np.linspace made it
SweepFromZero == Linspace(R(0, 1), R(30, 1))

\* ra=np.linspace(0,30); ra[0]=0.005
Sweep == [Linspace(R(0, 1), R(30, 1)) EXCEPT ![1] = R(5, 1000)]


----------------------------------------------------------------------------
(* Ordering of floats                                                      *)

\* x < y and x <= y; false when either is nan, as in IEEE comparisons
LtV(x, y) ==
  IF IsNaN(x) \/ IsNaN(y) THEN FALSE
  ELSE IF IsInf(x) THEN x.m < 0 /\ ~(IsInf(y) /\ y.m < 0)
  ELSE IF IsInf(y) THEN y.m > 0
  ELSE IF x.m < 0 /\ y.m >= 0 THEN TRUE
  ELSE IF x.m >= 0 /\ y.m < 0 THEN FALSE
  ELSE IF x.m >= 0 THEN x.e < y.e \/ (x.e = y.e /\ x.m < y.m)
  ELSE x.e > y.e \/ (x.e = y.e /\ x.m < y.m)

Lt(x, y) == \E u \in {x}, v \in {y} : LtV(u, v)

Le(x, y) == \E u \in {x}, v \in {y} : ~IsNaN(u) /\ ~IsNaN(v) /\ (u = v \/ LtV(u, v))

\* a finite float neither zero nor subnormal: no bits were lost to underflow
IsNormal(x) == IsFin(x) /\ Abs(x.m) >= pow2[Prec - 1]

\* the position of a finite float in the increasing enumeration of the floats
Ord(x) == Sgn(x.m) * ((x.e - ELo) * pow2[Prec - 1] + Abs(x.m))

\* x and y are finite and at most n floats apart
Near(x, y, n) == IsFin(x) /\ IsFin(y) /\ Abs(Ord(x) - Ord(y)) <= n

----------------------------------------------------------------------------
(* The notebook                                                            *)

VARIABLES
  pc, err,               \* the next cell to run; the uncaught exception, if any
  files, cell,           \* the CSV files read; the parameter cell as typed in
  GE, r, t,              \* ground elevation, distances, time
  h4d, h3d, h1d, wd,     \* the four series
  ddn, rad,              \* observation matrix and its radii
  K, Q, b0, r1, b1,      \* parameters and the reference point
  ra, b,                 \* the radius sweep and the thickness along it
  out,                   \* figures, printed lines and saved files, in order
  tpc, targs, tres, tprev \* direct calls of Theim: arguments and results

vars == <<pc, err, files, cell, GE, r, t, h4d, h3d, h1d, wd, ddn, rad,
          K, Q, b0, r1, b1, ra, b, out, tpc, targs, tres, tprev>>

nbvars == <<pc, err, files, cell, GE, r, t, h4d, h3d, h1d, wd, ddn, rad,
            K, Q, b0, r1, b1, ra, b, out>>
thvars == <<tpc, targs, tres, tprev>>

\* samples per drawdown file
NT == 3

\* a name not bound yet (its use would be a NameError)
Unset == [k |-> "unset", m |-> 0, e |-> 0]
\* the ??? the notebook ships in place of K, Q and b0
Placeholder == [k |-> "???", m |-> 0, e |-> 0]

\* Python's 0-based s[i] and s[-1]
At(s, i) == s[i + 1]
Last(s) == s[Len(s)]

\* largest finite float, smallest normal float
Huge == Fin(pow2[Prec] - 1, EHi)
Tiny == Fin(pow2[Prec - 1], ELo)

\* a drawdown file: NT rows (time, head), time in steps of 10 min
HeadFile(h0, step) ==
  [t |-> [j \in 1..NT |-> R(10 * (j - 1), 1)],
   h |-> [j \in 1..NT |-> Add(h0, Mul(R(j - 1, 1), step))]]

\* Well_drawdown.csv, Piez1_drawdown.csv, Piez3_drawdown.csv, Piez4_drawdown.csv
WellFiles  == { HeadFile(R(3, 1), R(1, 2)) }
Piez1Files == { HeadFile(R(231, 100), R(3, 10)), HeadFile(R(5, 4), R(1, 8)) }
Piez3Files == { HeadFile(R(3, 2), R(1, 16)) }
Piez4Files == { HeadFile(R(7, 4), R(1, 32)), HeadFile(R(5, 4), R(1, 8)) }

\* WellPiezoData.csv: rows (id, ground elevation, distance from the well)
GeomFile(r0, sc) ==
  [i \in 1..5 |->
     <<R(i - 1, 1), R(1000 + i, 10),
       IF i = 1 THEN r0 ELSE Mul(sc, R(5 * (i - 1), 1))>>]

GeomFiles == { GeomFile(R(1, 10), R(1, 1)), GeomFile(Zero, R(3, 2)) }

\* what the user may leave or type into the parameter cell
CellK  == { Placeholder, R(1, 1000), Tiny }
CellQ  == { Placeholder, R(1, 100), R(1, 1), Huge }
Cellb0 == { Placeholder, R(10, 1), R(1, 2) }

Init ==
  /\ pc = "load_geom" /\ err = "none"
  /\ files \in [geom : GeomFiles, p4 : Piez4Files, p3 : Piez3Files,
                p1 : Piez1Files, well : WellFiles]
  /\ cell \in [K : CellK, Q : CellQ, b0 : Cellb0]
  /\ GE = << >> /\ r = << >> /\ t = << >>
  /\ h4d = << >> /\ h3d = << >> /\ h1d = << >> /\ wd = << >>
  /\ ddn = << >> /\ rad = << >>
  /\ K = Unset /\ Q = Unset /\ b0 = Unset /\ r1 = Unset /\ b1 = Unset
  /\ ra = << >> /\ b = << >>
  /\ out = << >>
  /\ tpc = "off" /\ targs = << >> /\ tres = Unset /\ tprev = << >>

\* GE,r=np.loadtxt('WellPiezoData.csv',...,usecols=(1,2),unpack=True)
LoadGeometry ==
  /\ pc = "load_geom"
  /\ GE' = [i \in 1..Len(files.geom) |-> files.geom[i][2]]
  /\ r' = [i \in 1..Len(files.geom) |-> files.geom[i][3]]
  /\ pc' = "load_dd"
  /\ UNCHANGED <<err, files, cell, t, h4d, h3d, h1d, wd, ddn, rad,
                 K, Q, b0, r1, b1, ra, b, out, thvars>>

\* t,h4d=np.loadtxt('Piez4_drawdown.csv',...) and then Piez3, Piez1, Well:
\* t is bound four times, the Well file's column last
LoadDrawdown ==
  /\ pc = "load_dd"
  /\ h4d' = files.p4.h
  /\ h3d' = files.p3.h
  /\ h1d' = files.p1.h
  /\ wd' = files.well.h
  /\ t' = files.well.t
  /\ pc' = "transform"
  /\ UNCHANGED <<err, files, cell, GE, r, ddn, rad,
                 K, Q, b0, r1, b1, ra, b, out, thvars>>

\* faulty variant: h - h[-1]
DrawdownFromLast(h) == [j \in 1..Len(h) |-> Sub(h[j], Last(h))]

\* h - h[0], elementwise
Drawdown(h) == [j \in 1..Len(h) |-> Sub(h[j], At(h, 0))]

\* faulty variant: the rows stacked in the order the files were loaded
StackRowsAsLoaded(w, p1, p3, p4) == <<p4, p3, p1, w>>

\* ddn=np.array([wd,h1d,h3d,h4d])
StackRows(w, p1, p3, p4) == <<w, p1, p3, p4>>

\* rad=r[[0,1,3,4]]
PickRadii(rr) == <<At(rr, 0), At(rr, 1), At(rr, 3), At(rr, 4)>>

Transform ==
  /\ pc = "transform"
  /\ h4d' = Drawdown(h4d)
  /\ h3d' = Drawdown(h3d)
  /\ h1d' = Drawdown(h1d)
  /\ wd' = Drawdown(wd)
  /\ ddn' = StackRows(wd', h1d', h3d', h4d')
  /\ rad' = PickRadii(r)
  /\ pc' = "plot_obs"
  /\ UNCHANGED <<err, files, cell, GE, r, t,
                 K, Q, b0, r1, b1, ra, b, out, thvars>>

Artefact(kind, name, data) == [kind |-> kind, name |-> name, data |-> data]

\* ddn[:,-3:]
LateRows(d) == [i \in 1..Len(d) |-> SubSeq(d[i], Max(1, Len(d[i]) - 2), Len(d[i]))]

\* the two-panel figure of the observations
PlotObs ==
  /\ pc = "plot_obs"
  /\ out' = Append(out, Artefact("figure", "observations", <<rad, ddn, LateRows(ddn)>>))
  /\ pc' = "fit"
  /\ UNCHANGED <<err, files, cell, GE, r, t, h4d, h3d, h1d, wd, ddn, rad,
                 K, Q, b0, r1, b1, ra, b, thvars>>

\* faulty variant: the ??? taken for values, the cell run line by line
CellRunsAnyway(c) == TRUE

\* K=??? is not Python: the cell does not compile while a ??? is left
CellCompiles(c) == Placeholder \notin {c.K, c.Q, c.b0}

\* r1=r[1]
RefRadius(rr) == At(rr, 1)

\* faulty variant: b0-ddn[0,-1], the pumped well's row
RefThicknessWell(bb0, dd) == Sub(bb0, Last(At(dd, 0)))

\* b1=b0-ddn[1,-1]
RefThickness(bb0, dd) == Sub(bb0, Last(At(dd, 1)))

\* the parameter cell: K, Q, b0, the reference point, the sweep, the plot
FitCell ==
  /\ pc = "fit"
  /\ IF ~CellCompiles(cell)
       THEN /\ err' = "SyntaxError"
            /\ pc' = "error"
            /\ UNCHANGED <<K, Q, b0, r1, b1, ra, b, out>>
       ELSE /\ K' = cell.K
            /\ Q' = cell.Q
            /\ b0' = cell.b0
            /\ r1' = RefRadius(r)
            /\ b1' = RefThickness(b0', ddn)
            /\ ra' = Sweep
            /\ b' = TheimVec(ra', r1', b1', Q', K')
            /\ out' = Append(out, Artefact("figure", "fit",
                         <<ra', b', rad,
                           [i \in 1..Len(ddn) |-> Sub(b0', Last(ddn[i]))]>>))
            /\ pc' = "report"
            /\ err' = err
  /\ UNCHANGED <<files, cell, GE, r, t, h4d, h3d, h1d, wd, ddn, rad, thvars>>

\* print(... %.1e m/min'%(K/60)); print(... %.3f m/d'%(K*60*24))
Report ==
  /\ pc = "report"
  /\ out' = out \o <<Artefact("print", "m/min", Div(K, R(60, 1))),
                     Artefact("print", "m/d", Mul(Mul(K, R(60, 1)), R(24, 1)))>>
  /\ pc' = "nice_plot"
  /\ UNCHANGED <<err, files, cell, GE, r, t, h4d, h3d, h1d, wd, ddn, rad,
                 K, Q, b0, r1, b1, ra, b, thvars>>

\* the three-panel figure, saved as Drawdown.png
NicePlot ==
  /\ pc = "nice_plot"
  /\ out' = Append(out, Artefact("file", "Drawdown.png",
                <<rad, ddn, ra, [i \in 1..Len(b) |-> Sub(b0, b[i])]>>))
  /\ pc' = "done"
  /\ UNCHANGED <<err, files, cell, GE, r, t, h4d, h3d, h1d, wd, ddn, rad,
                 K, Q, b0, r1, b1, ra, b, thvars>>

Next ==
  \/ LoadGeometry
  \/ LoadDrawdown
  \/ Transform
  \/ PlotObs
  \/ FitCell
  \/ Report
  \/ NicePlot

Spec == Init /\ [][Next]_vars

----------------------------------------------------------------------------
(* Theim called directly                                                   *)

\* arguments the calls draw from
TRadii    == { R(5, 1000), R(1, 1), R(5, 2), R(5, 1), R(10, 1), R(30, 1) }
TRefRadii == { R(5, 1), R(10, 1) }
TThick    == { R(19, 2), Zero, R(0 - 19, 2), R(3, 10), Mul(R(3, 2), Tiny), Huge }
TRates    == { R(1, 100), R(1, 1), Huge, Tiny }
TConds    == { R(1, 1000), R(1, 1), Tiny }
TFactors  == { R(2, 1), R(1, 2), R(3, 1), R(10, 1), R(1, 10) }

TheimInputs == [r : TRadii, r1 : TRefRadii, b1 : TThick, Q : TRates, K : TConds]

Apply(a) == Theim(a.r, a.r1, a.b1, a.Q, a.K)

InitTheim ==
  /\ pc = "off" /\ err = "none"
  /\ files = << >> /\ cell = << >>
  /\ GE = << >> /\ r = << >> /\ t = << >>
  /\ h4d = << >> /\ h3d = << >> /\ h1d = << >> /\ wd = << >>
  /\ ddn = << >> /\ rad = << >>
  /\ K = Unset /\ Q = Unset /\ b0 = Unset /\ r1 = Unset /\ b1 = Unset
  /\ ra = << >> /\ b = << >>
  /\ out = << >>
  /\ tpc = "ready" /\ targs = << >> /\ tres = Unset /\ tprev = << >>

\* a call Theim(r, r1, b1, Q, K)
TheimCall ==
  /\ tpc = "ready"
  /\ \E a \in TheimInputs :
       /\ targs' = a
       /\ tres' = Apply(a)
  /\ tprev' = << >>
  /\ tpc' = "called"
  /\ UNCHANGED nbvars

\* a further call at another radius, all else as before
TheimAtRadius ==
  /\ tpc = "called"
  /\ \E rr \in TRadii :
       /\ targs' = [targs EXCEPT !.r = rr]
       /\ tres' = Apply(targs')
  /\ tprev' = [args |-> targs, res |-> tres, by |-> R(1, 1)]
  /\ tpc' = "radius"
  /\ UNCHANGED nbvars

\* a further call with Q and K both multiplied by c
TheimScaled ==
  /\ tpc = "called"
  /\ \E c \in TFactors :
       /\ targs' = [targs EXCEPT !.Q = Mul(c, targs.Q), !.K = Mul(c, targs.K)]
       /\ tres' = Apply(targs')
       /\ tprev' = [args |-> targs, res |-> tres, by |-> c]
  /\ tpc' = "scaled"
  /\ UNCHANGED nbvars

NextTheim ==
  \/ TheimCall
  \/ TheimAtRadius
  \/ TheimScaled

SpecTheim == InitTheim /\ [][NextTheim]_vars

----------------------------------------------------------------------------
(* Properties of Theim                                                     *)

Called == tpc \in {"called", "radius", "scaled"}

\* b1**2 keeps every bit of b1 * b1's leading Prec bits: it neither
\* overflows nor underflows
SquareInRange(x) == IsZero(x) \/ IsNormal(Mul(x, x))

\* C1 as claimed: at r = r1, for every b1 and positive Q, K, Theim returns
\* exactly b1.
C1_AnyThickness ==
  (Called /\ targs.r = targs.r1) => tres = targs.b1

\* C1 (amended): at r = r1 Theim returns exactly b1 whenever b1 >= 0, b1**2
\* neither overflows nor underflows and Q/pi/K is finite.  (For b1 < 0 it
\* returns -b1; an infinite Q/pi/K times log(1) = 0 is nan.)
C1_ReferenceRadius ==
  (/\ Called
   /\ targs.r = targs.r1
   /\ Le(Zero, targs.b1)
   /\ SquareInRange(targs.b1)
   /\ IsFin(Coef(targs.Q, targs.K)))
  => tres = targs.b1

C1_Witness ==
  /\ tpc = "called"
  /\ targs.r = targs.r1
  /\ targs.b1 = R(3, 10)
  /\ IsFin(Coef(targs.Q, targs.K))
  /\ tres = R(3, 10)

\* C3: for Q, K > 0 and a fixed reference point, the thickness is
\* non-decreasing in r wherever both results are defined (not nan).
C3_Monotone ==
  (/\ tpc = "radius"
   /\ Lt(Zero, targs.Q) /\ Lt(Zero, targs.K)
   /\ ~IsNaN(tres) /\ ~IsNaN(tprev.res))
  => /\ Lt(tprev.args.r, targs.r) => Le(tprev.res, tres)
     /\ Lt(targs.r, tprev.args.r) => Le(tres, tprev.res)

C3_Witness ==
  /\ tpc = "radius"
  /\ Lt(tprev.args.r, targs.r)
  /\ IsFin(tres) /\ IsFin(tprev.res)
  /\ Lt(tprev.res, tres)

\* c is a positive power of two
IsPow2(c) == IsFin(c) /\ c.m = pow2[Prec - 1]

\* nothing overflows or underflows on the way from Q, K, c to the two
\* coefficients Q/pi/K and (c Q)/pi/(c K)
ScalingInRange ==
  /\ IsNormal(tprev.args.Q) /\ IsNormal(tprev.args.K)
  /\ IsNormal(targs.Q) /\ IsNormal(targs.K)
  /\ IsNormal(Div(tprev.args.Q, Pi)) /\ IsNormal(Div(targs.Q, Pi))
  /\ IsNormal(Coef(tprev.args.Q, tprev.args.K))
  /\ IsNormal(Coef(targs.Q, targs.K))

IsExample(a) ==
  /\ a.r1 = R(5, 1) /\ a.b1 = R(19, 2)
  /\ a.Q = R(1, 100) /\ a.K = R(1, 1000)

\* C6 as claimed: with r1=5, b1=9.5, Q=0.01, K=0.001 the thickness at r=10
\* is approximately 9.6199.
C6_AsPrinted ==
  (Called /\ IsExample(targs) /\ targs.r = R(10, 1))
  => Near(tres, R(96199, 10000), 1)

\* C6 (amended): with r1=5, b1=9.5, Q=0.01, K=0.001 the thickness at r=5
\* is exactly 9.5; at r=10 the log term is about 2.2064, the argument about
\* 92.4564 and the thickness about 9.6154 (not 9.6199).
C6_WorkedExample ==
  (Called /\ IsExample(targs))
  => /\ targs.r = R(5, 1) => tres = R(19, 2)
     /\ targs.r = R(10, 1) =>
          /\ Near(TheimLHS(targs.r, targs.r1, targs.Q, targs.K), R(22064, 10000), 2)
          /\ Near(TheimArg(targs.r, targs.r1, targs.b1, targs.Q, targs.K),
                  R(924564, 10000), 2)
          /\ Near(tres, R(96154, 10000), 1)

C6_Witness ==
  /\ tpc = "called" /\ IsExample(targs)
  /\ targs.r = R(10, 1)
  /\ Lt(R(19, 2), tres) /\ Lt(tres, R(10, 1))

----------------------------------------------------------------------------
(* Properties of the notebook's run                                        *)

AfterTransform == pc \in {"plot_obs", "fit", "error", "report", "nice_plot", "done"}
AfterFit == pc \in {"report", "nice_plot", "done"}

\* the argument under the square root at sweep position i
SweepArg(i) == TheimArg(ra[i], r1, b1, Q, K)

\* C2 as claimed: a non-negative argument gives b >= 0 with b^2 equal to
\* the argument.
C2_SquareIsArgument ==
  pc = "done" =>
    \A i \in 1..Len(ra) : \E a \in {SweepArg(i)} :
      Le(Zero, a) => /\ Le(Zero, b[i])
                     /\ Mul(b[i], b[i]) = a

\* C2 (amended): where the argument under the root is negative (only for
\* ra[i] < r1) the result is nan, never a real thickness, and nothing is
\* raised: the run reaches its end with the nan in b; where the argument is non-negative the
\* result b is >= 0 and is the float nearest to the root, so that b*b is
\* within 2 units in the last place of the argument (not always equal), and
\* b is inf when the argument is.
C2_NegativeArgument ==
  pc = "done" =>
    /\ err = "none"
    /\ Len(b) = Len(ra)
    /\ \A i \in 1..Len(ra) : \E a \in {SweepArg(i)} :
         /\ Lt(a, Zero) => IsNaN(b[i]) /\ Lt(ra[i], r1)
         /\ Le(Zero, a) => Le(Zero, b[i])
         /\ (Le(Zero, a) /\ IsFin(a)) => Near(Mul(b[i], b[i]), a, 2)
         /\ a = Inf(1) => b[i] = Inf(1)

C2_Witness ==
  /\ pc = "done" /\ err = "none"
  /\ \E a \in {SweepArg(1)} : IsFin(a) /\ Lt(a, Zero) /\ IsNaN(b[1])
  /\ \E a \in {SweepArg(SweepN)} :
       /\ IsFin(b[SweepN]) /\ Lt(Zero, b[SweepN])
       /\ Near(Mul(b[SweepN], b[SweepN]), a, 2)

\* the series as the transform must leave them, from the files read
FileDrawdown(f) == [j \in 1..Len(f.h) |-> Sub(f.h[j], f.h[1])]

\* C5: after the transform each of the four series starts with exactly 0
\* and holds, at every other time, the loaded head minus the loaded head at
\* the first time; every row of ddn starts with 0.
C5_DrawdownFromFirst ==
  AfterTransform =>
    /\ wd = FileDrawdown(files.well) /\ h1d = FileDrawdown(files.p1)
    /\ h3d = FileDrawdown(files.p3) /\ h4d = FileDrawdown(files.p4)
    /\ wd[1] = Zero /\ h1d[1] = Zero /\ h3d[1] = Zero /\ h4d[1] = Zero
    /\ Len(ddn) = 4
    /\ \A i \in 1..Len(ddn) : ddn[i][1] = Zero

C5_Witness ==
  /\ pc = "plot_obs"
  /\ wd[1] = Zero /\ Lt(Zero, Last(wd))
  /\ \A i \in 1..4 : ddn[i][1] = Zero /\ ~IsZero(Last(ddn[i]))

\* row i of ddn and rad[i] belong to the same monitoring point
Aligned ==
  /\ ddn = <<FileDrawdown(files.well), FileDrawdown(files.p1),
             FileDrawdown(files.p3), FileDrawdown(files.p4)>>
  /\ rad = <<files.geom[1][3], files.geom[2][3],
             files.geom[4][3], files.geom[5][3]>>

\* C7: once built, ddn and rad correspond index for index (well and
\* geometry row 0, piezometer 1 and row 1, piezometer 3 and row 3,
\* piezometer 4 and row 4), and no later step changes either.
C7_RowsAligned ==
  /\ [](AfterTransform => Aligned)
  /\ [][AfterTransform => (ddn' = ddn /\ rad' = rad)]_vars

C7_Witness ==
  /\ pc = "done"
  /\ Aligned
  /\ files.well # files.p4 /\ files.p1 # files.p3
  /\ Len(out) = 5

Unfilled == Placeholder \in {cell.K, cell.Q, cell.b0}

\* C8 as claimed: with a placeholder left, the run fails with a value or
\* type error once the parameter assignments have run.
C8_FailsInArithmetic ==
  (Unfilled /\ pc = "error") =>
    /\ err \in {"ValueError", "TypeError"}
    /\ K # Unset /\ Q # Unset /\ b0 # Unset

\* C8 (amended): with a placeholder left in K, Q or b0 the run stops at the
\* parameter cell with an uncaught SyntaxError raised when the cell is
\* compiled, before any of its statements runs: K, Q, b0, r1, b1, ra and b
\* are never bound; no plot of the fit, no K report and no Drawdown.png is
\* produced; only the figure of the observations is.
C8_PlaceholderStopsRun ==
  Unfilled =>
    /\ ~AfterFit
    /\ K = Unset /\ Q = Unset /\ b0 = Unset /\ r1 = Unset /\ b1 = Unset
    /\ ra = << >> /\ b = << >>
    /\ \A i \in 1..Len(out) : out[i].name = "observations"
    /\ pc = "error" => (err = "SyntaxError" /\ Len(out) = 1)
    /\ pc # "error" => err = "none"

C8_Witness ==
  /\ pc = "error" /\ err = "SyntaxError"
  /\ cell.K = Placeholder /\ cell.Q # Placeholder
  /\ K = Unset
  /\ Len(out) = 1

\* C9: the radii passed to Theim are the evenly spaced grid from 0 to 30
\* with the first element replaced by 0.005: all strictly positive,
\* strictly increasing, the smallest 0.005, so the log never sees 0.
C9_SweepPositiveIncreasing ==
  AfterFit =>
    /\ Len(ra) = SweepN
    /\ ra[1] = R(5, 1000)
    /\ ra[SweepN] = R(30, 1)
    /\ \A i \in 2..SweepN : Near(ra[i], R(30 * (i - 1), SweepN - 1), 1)
    /\ \A i \in 1..SweepN : Lt(Zero, ra[i]) /\ ~IsZero(Div(ra[i], r1))
    /\ \A i \in 1..(SweepN - 1) : Lt(ra[i], ra[i + 1])
    /\ Len(b) = SweepN
    /\ pc = "report" => b = TheimVec(ra, r1, b1, Q, K)

C9_Witness ==
  /\ pc = "report"
  /\ Len(ra) = SweepN
  /\ ra[1] = R(5, 1000) /\ Lt(ra[1], ra[2])
  /\ \E i \in 1..SweepN : IsFin(b[i])

\* r1 and b1 come from piezometer 1
FromPiezometer1 ==
  /\ r1 = files.geom[2][3]
  /\ r1 = At(rad, 1)
  /\ b1 = Sub(cell.b0, Last(FileDrawdown(files.p1)))

\* C10 as claimed: for every K > 0 and Q > 0 with b1 >= 0 the thickness at
\* r = r1 equals b0 - ddn[1,-1].
C10_AnyParameters ==
  (AfterFit /\ Lt(Zero, K) /\ Lt(Zero, Q) /\ Le(Zero, b1))
  => Theim(r1, r1, b1, Q, K) = Sub(b0, Last(At(ddn, 1)))

\* C10 (amended): r1 is geometry row 1 and b1 is b0 minus the last
\* drawdown of ddn row 1, the Piez1 series; for K > 0, Q > 0 with Q/pi/K
\* finite and b1 >= 0 with b1**2 neither overflowing nor underflowing, the
\* thickness at r = r1 equals b0 - ddn[1,-1].
C10_ThroughPiezometer1 ==
  AfterFit =>
    /\ FromPiezometer1
    /\ (/\ Lt(Zero, K) /\ Lt(Zero, Q)
        /\ Le(Zero, b1) /\ SquareInRange(b1)
        /\ IsFin(Coef(Q, K)))
       => Theim(r1, r1, b1, Q, K) = Sub(b0, Last(At(ddn, 1)))

C10_Witness ==
  /\ pc = "done"
  /\ FromPiezometer1
  /\ files.p1 # files.well
  /\ Lt(Zero, b1) /\ IsFin(Coef(Q, K))
  /\ Theim(r1, r1, b1, Q, K) = Sub(b0, Last(At(ddn, 1)))

====
